---- MODULE Spec2Model ----
(***************************************************************************)
(* VisionAgent.analyze (src/app/agents/vision_agent.py) and                *)
(* ProgressEmitter.emit (src/app/core/progress_emitter.py).                *)
(*                                                                         *)
(* Python values are records [t, n, s]: t is the type tag, n the number    *)
(* (an int's value; a float's value in hundredths; the instant of an ISO   *)
(* timestamp), s the characters of a string or the elements of a list or   *)
(* mapping, one token each.  A dict is a function from its keys.           *)
(***************************************************************************)
EXTENDS Integers, Sequences, FiniteSets, TLC

\* The clock readings datetime.utcnow() can return are 0..MaxClock.
MaxClock == 2

--------------------------------------------------------------------------
(* Values *)

None == [t |-> "none", n |-> 0, s |-> <<>>]
PyInt(i) == [t |-> "int", n |-> i, s |-> <<>>]
PyFloat(h) == [t |-> "float", n |-> h, s |-> <<>>]
PyStr(cs) == [t |-> "str", n |-> 0, s |-> cs]
PyList(es) == [t |-> "list", n |-> 0, s |-> es]
PyDict(es) == [t |-> "dict", n |-> 0, s |-> es]
PyObject(es) == [t |-> "object", n |-> 0, s |-> es]

EmptyDict == <<>>

\* d.get(k, default)
Get(d, k, default) == IF k \in DOMAIN d THEN d[k] ELSE default

\* d[k] = v
Put(d, k, v) == [x \in DOMAIN d \cup {k} |-> IF x = k THEN v ELSE d[x]]

Digits == {"0", "1", "2", "3", "4", "5", "6", "7", "8", "9"}

DigitVal(c) ==
    CASE c = "0" -> 0 [] c = "1" -> 1 [] c = "2" -> 2 [] c = "3" -> 3
      [] c = "4" -> 4 [] c = "5" -> 5 [] c = "6" -> 6 [] c = "7" -> 7
      [] c = "8" -> 8 [] c = "9" -> 9

RECURSIVE DecimalValue(_)
DecimalValue(cs) ==
    IF cs = <<>> THEN 0
    ELSE 10 * DecimalValue(SubSeq(cs, 1, Len(cs) - 1)) + DigitVal(cs[Len(cs)])

\* float(cs) for cs made of digits and dots: the value in hundredths, or a
\* ValueError ("1.2.3", ".").
ParseFloat(cs) ==
    LET dots == {i \in 1..Len(cs) : cs[i] = "."}
        dot == IF dots = {} THEN Len(cs) + 1 ELSE CHOOSE i \in dots : TRUE
        whole == SubSeq(cs, 1, dot - 1)
        frac == SubSeq(cs, dot + 1, Len(cs))
        cents == SubSeq(frac \o <<"0", "0">>, 1, 2)
    IN  IF Cardinality(dots) > 1 \/ Len(whole) + Len(frac) = 0
        THEN [ok |-> FALSE, v |-> None]
        ELSE [ok |-> TRUE,
              v |-> PyFloat(100 * DecimalValue(whole) + DecimalValue(cents))]

--------------------------------------------------------------------------
(* The receipt document and ProgressEmitter.emit *)

\* datetime.isoformat() of the instant i
IsoFormat(i) == [t |-> "iso", n |-> i, s |-> <<>>]

\* int(progress): an int as it is, a string of digits parsed, anything else
\* a ValueError or TypeError.
IntOf(v) ==
    IF v.t = "int" THEN [ok |-> TRUE, v |-> v]
    ELSE IF v.t = "str" /\ v.s # <<>> /\ \A i \in 1..Len(v.s) : v.s[i] \in Digits
    THEN [ok |-> TRUE, v |-> PyInt(DecimalValue(v.s))]
    ELSE [ok |-> FALSE, v |-> None]

\* NumpyJsonEncoder.default on one element: a NaN or infinite numpy float
\* becomes 0.0.
EncodeElement(e) == IF e \in {"nan", "inf"} THEN "0.0" ELSE e

\* json.dumps(value, cls=NumpyJsonEncoder); an object the encoder does not
\* know raises TypeError.
JsonDumps(v) ==
    LET body == [i \in 1..Len(v.s) |-> EncodeElement(v.s[i])]
    IN  CASE v.t = "list" -> [ok |-> TRUE, v |-> PyStr(<<"[">> \o body \o <<"]">>)]
          [] v.t = "dict" -> [ok |-> TRUE, v |-> PyStr(<<"{">> \o body \o <<"}">>)]
          [] OTHER -> [ok |-> FALSE, v |-> None]

\* str(value), the last resort
StrOf(v) == IF v.t = "str" THEN v ELSE PyStr(<<"<", v.t>> \o v.s \o <<">">>)

\* value is None or value == {} or value == []
IsSkipped(v) == v.t = "none" \/ (v.t \in {"dict", "list"} /\ v.s = <<>>)

IsPrimitive(v) == v.t \in {"str", "int", "float", "bool"}

DetailField(key) == "progress_detail_" \o key

\* The value stored for one detail that is not skipped.
DetailValue(v) ==
    IF IsPrimitive(v) THEN v
    ELSE IF JsonDumps(v).ok THEN JsonDumps(v).v ELSE StrOf(v)

\* "if details:"
Truthy(details) ==
    CASE details.kind = "none" -> FALSE
      [] details.kind = "dict" -> DOMAIN details.d # {}
      [] OTHER -> details.v.s # <<>>

\* The progress_detail_ fields of the update.
DetailFields(details) ==
    IF ~Truthy(details) THEN EmptyDict
    ELSE IF details.kind = "dict"
    THEN LET kept == {k \in DOMAIN details.d : ~IsSkipped(details.d[k])}
             field == [f \in {DetailField(k) : k \in kept} |->
                          CHOOSE k \in kept : DetailField(k) = f]
         IN  [f \in DOMAIN field |-> DetailValue(details.d[field[f]])]
    ELSE [f \in {"progress_detail_info"} |-> StrOf(details.v)]

\* update_data as emit builds it; t1 and t2 are the two readings of the clock.
UpdateData(args, t1, t2) ==
    LET base == [progress_agent |-> StrOf(args.agent),
                 progress_stage |-> StrOf(args.stage),
                 progress_message |-> StrOf(args.message),
                 progress_percentage |-> IntOf(args.progress).v,
                 progress_timestamp |-> IsoFormat(t1),
                 last_updated |-> IsoFormat(t2)]
        extra == DetailFields(args.details)
    IN  [f \in DOMAIN base \cup DOMAIN extra |->
            IF f \in DOMAIN extra THEN extra[f] ELSE base[f]]

\* DocumentReference.set(update_data): the document replaced.
SetDocument(d, update_data) == update_data

\* DocumentReference.update(update_data): the fields given are set, the others kept.
Update(d, update_data) ==
    [f \in DOMAIN d \cup DOMAIN update_data |->
        IF f \in DOMAIN update_data THEN update_data[f] ELSE d[f]]

\* emit without its try/except: a failure to build or to write is raised.
EmitUnguarded(d, args, t1, t2, storeOk) ==
    IF ~IntOf(args.progress).ok
    THEN [doc |-> d, sent |-> FALSE, update |-> EmptyDict, wrote |-> FALSE, raised |-> TRUE]
    ELSE [doc |-> IF storeOk THEN Update(d, UpdateData(args, t1, t2)) ELSE d,
          sent |-> TRUE,
          update |-> UpdateData(args, t1, t2),
          wrote |-> storeOk,
          raised |-> ~storeOk]

\* emit: the document after the call, the update handed to the store, and
\* whether the call raised to its caller. storeOk is whether the store takes
\* the write.
Emit(d, args, t1, t2, storeOk) ==
    IF ~IntOf(args.progress).ok
    THEN [doc |-> d, sent |-> FALSE, update |-> EmptyDict, wrote |-> FALSE, raised |-> FALSE]
    ELSE [doc |-> IF storeOk THEN Update(d, UpdateData(args, t1, t2)) ELSE d,
          sent |-> TRUE,
          update |-> UpdateData(args, t1, t2),
          wrote |-> storeOk,
          raised |-> FALSE]

--------------------------------------------------------------------------
(* VisionAgent *)

\* self.model_name, the model __init__ builds; and the model of the fallback
PrimaryModel == "models/gemini-2.5-flash"
SecondaryModel == "models/gemini-2.5-pro"

RequiredKeys ==
    {"merchant_name", "total_amount", "currency", "date", "transaction_id",
     "ocr_text", "confidence", "visual_anomalies"}

\* The record of the outer handler.
DefaultRecord ==
    [merchant_name |-> PyStr(<<"Unknown Merchant">>),
     total_amount |-> PyFloat(0),
     currency |-> PyStr(<<"N">>),
     date |-> PyStr(<<>>),
     transaction_id |-> PyStr(<<>>),
     ocr_text |-> PyStr(<<"OCR extraction unavailable - Gemini API error">>),
     confidence |-> PyInt(0),
     visual_anomalies |-> PyList(<<>>),
     error |-> PyStr(<<"Gemini API unavailable - check GEMINI_API_KEY and model access">>)]

\* A response text is a sequence of tokens [k, v]: whitespace, the fence
\* "```json", the fence "```", a JSON document (v is what it denotes: t is
\* "obj" with the object's members in f, or another JSON type), or text
\* that is no JSON.
Tok(k) == [k |-> k, v |-> [t |-> "none", f |-> EmptyDict]]
Json(t, f) == [k |-> "json", v |-> [t |-> t, f |-> f]]

\* str.strip()
RECURSIVE LStrip(_)
LStrip(text) ==
    IF text # <<>> /\ Head(text).k = "ws" THEN LStrip(Tail(text)) ELSE text

RECURSIVE RStrip(_)
RStrip(text) ==
    IF text # <<>> /\ text[Len(text)].k = "ws"
    THEN RStrip(SubSeq(text, 1, Len(text) - 1))
    ELSE text

Strip(text) == RStrip(LStrip(text))

\* Lines 82-86: the fences removed.
CleanResponse(text) ==
    LET raw == Strip(text)
        cut == IF raw # <<>> /\ Head(raw).k = "fence_json" THEN Tail(raw) ELSE raw
    IN  IF cut # <<>> /\ cut[Len(cut)].k \in {"fence"}
        THEN SubSeq(cut, 1, Len(cut) - 1)
        ELSE cut

\* json.loads: one JSON document and nothing else, or a JSONDecodeError.
JsonLoads(text) ==
    IF Len(text) = 1 /\ text[1].k = "json"
    THEN [ok |-> TRUE, v |-> text[1].v]
    ELSE [ok |-> FALSE, v |-> Tok("none").v]

IsDigitOrDot(c) == c \in Digits \cup {"."}

\* Lines 91-95 on the dict data: a string amount is replaced by its float.
SanitizeAmount(data) ==
    LET amount == Get(data, "total_amount", PyInt(0))
        clean_amount == SelectSeq(amount.s, IsDigitOrDot)
    IN  IF amount.t # "str" THEN [ok |-> TRUE, data |-> data]
        ELSE IF clean_amount = <<>>
        THEN [ok |-> TRUE, data |-> Put(data, "total_amount", PyFloat(0))]
        ELSE IF ParseFloat(clean_amount).ok
        THEN [ok |-> TRUE,
              data |-> Put(data, "total_amount", ParseFloat(clean_amount).v)]
        ELSE [ok |-> FALSE, data |-> data]

\* Lines 98-99
EnsureConfidence(data) ==
    IF "confidence" \notin DOMAIN data
    THEN Put(data, "confidence", PyInt(85))
    ELSE data

\* The same with no exception raised: what cannot be parsed or sanitized is
\* taken as an empty dict.
ExtractUnchecked(text) ==
    LET loaded == JsonLoads(Strip(CleanResponse(text)))
    IN  IF ~loaded.ok \/ loaded.v.t # "obj" \/ ~SanitizeAmount(loaded.v.f).ok
        THEN [ok |-> TRUE, data |-> EnsureConfidence(EmptyDict)]
        ELSE [ok |-> TRUE, data |-> EnsureConfidence(SanitizeAmount(loaded.v.f).data)]

\* Lines 82-99: the dict analyze builds from the response text, or the
\* exception that takes it to the outer handler (a JSONDecodeError, the
\* AttributeError of .get on what is no dict, the ValueError of float).
Extract(text) ==
    LET loaded == JsonLoads(Strip(CleanResponse(text)))
    IN  IF ~loaded.ok \/ loaded.v.t # "obj"
        THEN [ok |-> FALSE, data |-> EmptyDict]
        ELSE IF ~SanitizeAmount(loaded.v.f).ok
        THEN [ok |-> FALSE, data |-> EmptyDict]
        ELSE [ok |-> TRUE, data |-> EnsureConfidence(SanitizeAmount(loaded.v.f).data)]

\* str() of a value inside an f-string
Show(v) == IF v.t = "str" THEN v.s ELSE <<v.t, ToString(v.n)>>

StartedArgs ==
    [agent |-> PyStr(<<"vision">>),
     stage |-> PyStr(<<"ocr_started">>),
     message |-> PyStr(<<"Gemini Vision analyzing receipt structure...">>),
     progress |-> PyInt(10),
     details |-> [kind |-> "none", d |-> EmptyDict, v |-> None]]

CompleteArgs(data) ==
    [agent |-> PyStr(<<"vision">>),
     stage |-> PyStr(<<"ocr_complete">>),
     message |-> PyStr(<<"Extracted: ">>
                       \o Show(Get(data, "merchant_name", PyStr(<<"Unknown">>)))
                       \o <<" - ">>
                       \o Show(Get(data, "currency", PyStr(<<"N">>)))
                       \o Show(Get(data, "total_amount", PyInt(0)))),
     progress |-> PyInt(30),
     details |-> [kind |-> "dict",
                  d |-> [merchant |-> Get(data, "merchant_name", None),
                         amount |-> Get(data, "total_amount", None),
                         confidence |-> Get(data, "confidence", None)],
                  v |-> None]]

\* '"404" in str(model_error) or "not found" in str(model_error).lower()',
\* the error's text given as its words.
Lower(w) == IF w \in {"Not Found", "NOT FOUND"} THEN "not found" ELSE w

IsNotFound(model_error) ==
    \E i \in 1..Len(model_error) :
        model_error[i] = "404" \/ Lower(model_error[i]) = "not found"

--------------------------------------------------------------------------
(* Inputs *)

\* The callers of analyze on the one VisionAgent.
Callers == {"a", "b"}

Chars(amount) ==
    CASE amount = "2,500" -> <<"2", ",", "5", "0", "0">>
      [] amount = "N1,500.75" -> <<"N", "1", ",", "5", "0", "0", ".", "7", "5">>
      [] amount = "-5" -> <<"-", "5">>
      [] amount = "1.2.3" -> <<"1", ".", "2", ".", "3">>
      [] amount = "n/a" -> <<"n", "/", "a">>

FullObject ==
    [merchant_name |-> PyStr(<<"Acme Store">>),
     total_amount |-> PyInt(2500),
     currency |-> PyStr(<<"$">>),
     date |-> PyStr(<<"2025-01-31">>),
     transaction_id |-> PyStr(<<"TX1">>),
     ocr_text |-> PyStr(<<"ACME STORE TOTAL 2,500">>),
     confidence |-> PyInt(92),
     visual_anomalies |-> PyList(<<"font mismatch">>)]

\* The objects a response may hold: every field given, the amount a number
\* or a string; fields left out; a member named error.
Objects ==
    {FullObject,
     Put(FullObject, "total_amount", PyInt(-5)),
     Put(FullObject, "total_amount", PyStr(Chars("N1,500.75"))),
     Put(FullObject, "total_amount", PyStr(Chars("-5"))),
     Put(FullObject, "total_amount", PyStr(Chars("1.2.3"))),
     Put(FullObject, "total_amount", PyStr(Chars("n/a"))),
     Put(FullObject, "error", PyStr(<<"image is blurry">>)),
     [merchant_name |-> PyStr(<<"Acme Store">>),
      total_amount |-> PyStr(Chars("2,500")),
      currency |-> PyStr(<<"$">>),
      confidence |-> PyInt(92)],
     [merchant_name |-> PyStr(<<"Acme Store">>)]}

Texts ==
    {<<Json("obj", o)>> : o \in Objects}
    \cup {<<Tok("ws"), Tok("fence_json"), Tok("ws"), Json("obj", FullObject),
           Tok("ws"), Tok("fence"), Tok("ws")>>,
          <<Json("list", EmptyDict)>>,
          <<Tok("text")>>,
          <<Tok("fence")>>}

\* The texts of the exceptions generate_content_async raises.
\* Each with its class: whether it says the model is not there.
Errors ==
    {[class |-> "not found",
      words |-> <<"404", "models/gemini-2.5-flash is not found for API version v1beta">>],
     [class |-> "not found", words |-> <<"Model", "Not Found">>],
     [class |-> "other", words |-> <<"429", "quota exceeded">>],
     [class |-> "other", words |-> <<"Deadline Exceeded">>]}

NoError == [class |-> "none", words |-> <<>>]

\* What a remote call comes back with.
Outcomes ==
    {[ok |-> TRUE, text |-> x, error |-> NoError] : x \in Texts}
    \cup {[ok |-> FALSE, text |-> <<>>, error |-> e] : e \in Errors}

NoDetails == [kind |-> "none", d |-> EmptyDict, v |-> None]
DictDetails(d) == [kind |-> "dict", d |-> d, v |-> None]
OtherDetails(v) == [kind |-> "other", d |-> EmptyDict, v |-> v]

\* The emit calls of the other agents on the same receipt.
EmitArgs ==
    {[agent |-> PyStr(<<"forensic">>),
      stage |-> PyStr(<<"forensics_running">>),
      message |-> PyStr(<<"Running pixel analysis">>),
      progress |-> p,
      details |-> d] :
        p \in {PyInt(50), PyStr(<<"6", "0">>), PyStr(<<"5", "0", "%">>)},
        d \in {NoDetails,
               DictDetails(EmptyDict),
               DictDetails([a |-> None, b |-> PyList(<<>>), c |-> PyDict(<<>>),
                            d |-> PyInt(5)]),
               DictDetails([b |-> PyList(<<"1", "nan">>), d |-> PyInt(7)]),
               DictDetails([c |-> PyObject(<<"mask">>)]),
               OtherDetails(PyStr(<<"stage failed">>)),
               OtherDetails(PyStr(<<>>))}}

--------------------------------------------------------------------------
(* State *)

VARIABLES
    model,      \* self.model
    pc,         \* where each caller's analyze call is
    progress,   \* whether the call was given a progress collaborator
    trace,      \* what the call has done: its emits, requests, errors
    text,       \* the response text the call received
    ret,        \* what the call returned to its caller
    doc,        \* the receipt document in the store
    now,        \* the clock
    lastEmit    \* the most recent call of emit and how it ended

vars == <<model, pc, progress, trace, text, ret, doc, now, lastEmit>>

NoText == <<Tok("no response")>>
NoReturn == [done |-> FALSE, raised |-> FALSE, rec |-> EmptyDict]
Returned(rec) == [done |-> TRUE, raised |-> FALSE, rec |-> rec]

Entry(kind, name, n, ok) == [kind |-> kind, name |-> name, n |-> n, ok |-> ok]

Init ==
    /\ model = PrimaryModel
    /\ pc = [c \in Callers |-> "idle"]
    /\ progress = [c \in Callers |-> FALSE]
    /\ trace = [c \in Callers |-> <<>>]
    /\ text = [c \in Callers |-> NoText]
    /\ ret = [c \in Callers |-> NoReturn]
    /\ doc = EmptyDict
    /\ now = 0
    /\ lastEmit = [flip |-> FALSE, args |-> StartedArgs, sent |-> FALSE,
                   wrote |-> FALSE, raised |-> FALSE]

\* One call of emit by anyone: the document, the clock and lastEmit after it.
EmitStep(e, args, t2) ==
    /\ doc' = e.doc
    /\ now' = t2
    /\ lastEmit' = [flip |-> ~lastEmit.flip, args |-> args, sent |-> e.sent,
                    wrote |-> e.wrote, raised |-> e.raised]

EmitEntry(e, args) ==
    Entry("emit", args.stage.s[1], args.progress.n, e.wrote)

--------------------------------------------------------------------------
(* analyze, one action for each stretch between two awaits of a remote call *)

\* The ways a call of emit can go: whether the store takes the write, and
\* the second reading of the clock (the first is now).
EmitRuns == {[storeOk |-> ok, t2 |-> t] : ok \in BOOLEAN, t \in now..MaxClock}

\* Lines 36-68: the started event, the image opened, the first request
\* submitted to self.model. An image that cannot be opened goes to the outer
\* handler.
AnalyzeStart(c, supplied) ==
    /\ pc[c] = "idle"
    /\ \E p \in supplied, imageOk \in BOOLEAN :
       \E r \in IF p THEN EmitRuns ELSE {[storeOk |-> TRUE, t2 |-> now]} :
          LET e == Emit(doc, StartedArgs, now, r.t2, r.storeOk)
              emitted == IF p THEN <<EmitEntry(e, StartedArgs)>> ELSE <<>>
              failed == (p /\ e.raised) \/ ~imageOk
          IN  /\ progress' = [progress EXCEPT ![c] = p]
              /\ IF p THEN EmitStep(e, StartedArgs, r.t2)
                      ELSE UNCHANGED <<doc, now, lastEmit>>
              /\ trace' = [trace EXCEPT ![c] =
                              IF failed THEN emitted
                              ELSE emitted \o <<Entry("call", model, 0, TRUE)>>]
              /\ ret' = [ret EXCEPT ![c] =
                            IF failed THEN Returned(DefaultRecord) ELSE NoReturn]
              /\ pc' = [pc EXCEPT ![c] = IF failed THEN "done" ELSE "call1"]
              /\ UNCHANGED <<model, text>>

\* Lines 82-131 once a response has come: the text cleaned, parsed and
\* sanitized, the complete event, the dict returned; any exception on the
\* way returns the record of the outer handler.
Respond(c, t) ==
    LET x == Extract(t)
        args == CompleteArgs(x.data)
        emits == x.ok /\ progress[c]
    IN  \E r \in IF emits THEN EmitRuns ELSE {[storeOk |-> TRUE, t2 |-> now]} :
          LET e == Emit(doc, args, now, r.t2, r.storeOk)
              failed == ~x.ok \/ (emits /\ e.raised)
          IN  /\ text' = [text EXCEPT ![c] = t]
              /\ IF emits THEN EmitStep(e, args, r.t2)
                          ELSE UNCHANGED <<doc, now, lastEmit>>
              /\ trace' = [trace EXCEPT ![c] =
                              @ \o <<Entry("response", "text", 0, TRUE)>>
                                \o IF emits THEN <<EmitEntry(e, args)>> ELSE <<>>]
              /\ ret' = [ret EXCEPT ![c] =
                            Returned(IF failed THEN DefaultRecord ELSE x.data)]
              /\ pc' = [pc EXCEPT ![c] = "done"]

\* A retry whatever the error says.
RetryOnAnyError(model_error) == TRUE

\* Line 70
RetryWithSecondary(model_error) == IsNotFound(model_error)

\* Lines 75-79, 117-131: an exception of a remote call reaches the outer
\* handler.
Fail(c, error) ==
    /\ trace' = [trace EXCEPT ![c] = @ \o <<Entry("error", error.class, 0, FALSE)>>]
    /\ ret' = [ret EXCEPT ![c] = Returned(DefaultRecord)]
    /\ pc' = [pc EXCEPT ![c] = "done"]
    /\ UNCHANGED <<text, doc, now, lastEmit>>

\* Lines 68-79: the first request comes back. A not-found error swaps
\* self.model for the secondary model and submits the second request; any
\* other error is raised to the outer handler.
Call1Return(c) ==
    /\ pc[c] = "call1"
    /\ UNCHANGED progress
    /\ \E out \in Outcomes :
          IF out.ok
          THEN Respond(c, out.text) /\ UNCHANGED model
          ELSE IF RetryWithSecondary(out.error.words)
          THEN /\ model' = SecondaryModel
               /\ trace' = [trace EXCEPT ![c] =
                               @ \o <<Entry("error", out.error.class, 0, FALSE),
                                      Entry("call", SecondaryModel, 0, TRUE)>>]
               /\ pc' = [pc EXCEPT ![c] = "call2"]
               /\ UNCHANGED <<text, ret, doc, now, lastEmit>>
          ELSE Fail(c, out.error) /\ UNCHANGED model

\* Lines 74-77: the second request comes back; its failure is raised as a
\* ValueError to the outer handler.
Call2Return(c) ==
    /\ pc[c] = "call2"
    /\ UNCHANGED <<model, progress>>
    /\ \E out \in Outcomes :
          IF out.ok THEN Respond(c, out.text) ELSE Fail(c, out.error)

NoEmit ==
    [flip |-> FALSE, args |-> StartedArgs, sent |-> FALSE, wrote |-> FALSE,
     raised |-> FALSE]

\* The caller has its record and turns to the next receipt, whose document
\* has no progress fields yet.
NextCall(c) ==
    /\ pc[c] = "done"
    /\ pc' = [pc EXCEPT ![c] = "idle"]
    /\ progress' = [progress EXCEPT ![c] = FALSE]
    /\ trace' = [trace EXCEPT ![c] = <<>>]
    /\ text' = [text EXCEPT ![c] = NoText]
    /\ ret' = [ret EXCEPT ![c] = NoReturn]
    /\ doc' = EmptyDict
    /\ lastEmit' = NoEmit
    /\ UNCHANGED <<model, now>>

\* The emits of the other agents while analyze runs: one whose progress is
\* no number, one in order.
FewEmitArgs ==
    {x \in EmitArgs :
        \/ ~IntOf(x.progress).ok /\ x.details.kind = "none"
        \/ x.progress = PyInt(50) /\ x.details = DictDetails([c |-> PyObject(<<"mask">>)])}

\* Another agent emits on the same receipt.
EmitCall(calls) ==
    \E args \in calls, r \in EmitRuns :
       /\ EmitStep(Emit(doc, args, now, r.t2, r.storeOk), args, r.t2)
       /\ UNCHANGED <<model, pc, progress, trace, text, ret>>

\* One caller, one analyze call after the other, each with or without a
\* progress collaborator, and the other agents' emits on the receipt being
\* analysed.
Next ==
    \/ AnalyzeStart("a", BOOLEAN)
    \/ Call1Return("a")
    \/ Call2Return("a")
    \/ NextCall("a")
    \/ EmitCall(FewEmitArgs)

Spec == Init /\ [][Next]_vars

\* The agents' emits on one receipt.
NextEmit == EmitCall(EmitArgs)

SpecEmit == Init /\ [][NextEmit]_vars

\* Two callers, one analyze call each, interleaved at the awaits of the
\* remote calls; no progress collaborator.
NextConcurrent ==
    \E c \in Callers :
        \/ AnalyzeStart(c, {FALSE})
        \/ Call1Return(c)
        \/ Call2Return(c)

SpecConcurrent == Init /\ [][NextConcurrent]_vars

--------------------------------------------------------------------------
(* Properties *)

Indices(c, kind) == {i \in 1..Len(trace[c]) : trace[c][i].kind = kind}

\* The stages of the events the call has emitted, in order.
Emitted(c) ==
    LET IsEmit(x) == x.kind = "emit"
        es == SelectSeq(trace[c], IsEmit)
    IN  [i \in 1..Len(es) |-> <<es[i].name, es[i].n>>]

\* The response came and is a JSON object, fenced or not.
ParsedAsObject(c) ==
    /\ text[c] # NoText
    /\ JsonLoads(Strip(CleanResponse(text[c]))).ok
    /\ JsonLoads(Strip(CleanResponse(text[c]))).v.t = "obj"

\* C1: whatever the remote calls and the image do, analyze raises nothing
\* and returns a record that holds all eight required fields.
C1_AllRequiredFields ==
    \A c \in Callers :
        ret[c].done => ~ret[c].raised /\ RequiredKeys \subseteq DOMAIN ret[c].rec

\* C2: one analyze call makes at most two remote calls; the second, to the
\* secondary model, exactly when the first failed as not found; a first
\* failure of another class ends the call in the outer handler with no
\* retry; a failure of the second call ends it with the default record.
C2_AtMostOneRetry ==
    \A c \in Callers :
        LET calls == Indices(c, "call")
            errors == Indices(c, "error")
        IN  /\ Cardinality(calls) <= 2
            /\ Cardinality(errors) <= 2
            /\ \A i \in errors :
                  IF (\A j \in errors : i <= j) /\ trace[c][i].name = "not found"
                  THEN /\ i + 1 \in calls
                       /\ trace[c][i + 1].name = SecondaryModel
                       /\ Cardinality(calls) = 2
                  ELSE /\ i = Len(trace[c])
                       /\ pc[c] = "done"
                       /\ ret[c] = Returned(DefaultRecord)
            /\ \A i \in calls :
                  (\E j \in calls : j < i) =>
                      /\ i - 1 \in errors
                      /\ trace[c][i - 1].name = "not found"
                      /\ \A j \in errors : i - 1 <= j

\* Both remote calls failed and the call ended with the default record.
C2_Witness ==
    \E c \in Callers :
        /\ pc[c] = "done"
        /\ Cardinality(Indices(c, "call")) = 2
        /\ Cardinality(Indices(c, "error")) = 2
        /\ ret[c] = Returned(DefaultRecord)

\* C3: every analyze call submits its first request to the primary model,
\* and the secondary model is tried only after the primary model was called
\* in the same analyze call and failed as not found.
C3_PrimaryFirst ==
    \A c \in Callers :
        \A i \in Indices(c, "call") :
            IF \A j \in Indices(c, "call") : i <= j
            THEN trace[c][i].name = PrimaryModel
            ELSE /\ trace[c][i].name = SecondaryModel
                 /\ trace[c][i - 1].kind = "error"
                 /\ trace[c][i - 1].name = "not found"

\* C4: with a progress collaborator, the call emits ocr_started (10) once,
\* first of all and so before any remote call; it emits ocr_complete (30) at
\* most once, as the last thing it does, after a response that parsed as a
\* JSON object; a call that returns the parsed dict has emitted 10 then 30,
\* and a call that returns the default record has not emitted ocr_complete.
C4_ProgressEvents ==
    \A c \in Callers :
        (progress[c] /\ trace[c] # <<>>) =>
            LET emits == Indices(c, "emit")
                complete == {i \in emits : trace[c][i].name = "ocr_complete"}
            IN  /\ trace[c][1].kind = "emit"
                /\ trace[c][1].name = "ocr_started"
                /\ trace[c][1].n = 10
                /\ emits \ complete = {1}
                /\ \A i \in complete :
                      /\ i = Len(trace[c])
                      /\ trace[c][i].n = 30
                      /\ trace[c][i - 1].kind = "response"
                      /\ ParsedAsObject(c)
                      /\ ret[c].done /\ ret[c].rec # DefaultRecord
                /\ ret[c].done =>
                      IF ret[c].rec = DefaultRecord
                      THEN Emitted(c) = <<<<"ocr_started", 10>>>>
                      ELSE Emitted(c) = <<<<"ocr_started", 10>>, <<"ocr_complete", 30>>>>

\* A call with a collaborator returned the parsed dict after a fallback.
C4_Witness ==
    \E c \in Callers :
        /\ progress[c]
        /\ ret[c].done
        /\ ret[c].rec # DefaultRecord
        /\ Cardinality(Indices(c, "call")) = 2
        /\ Emitted(c) = <<<<"ocr_started", 10>>, <<"ocr_complete", 30>>>>

\* The call reached "return data": a response came, parsed as a dict and
\* its amount was sanitized.
Extracted(c) == text[c] # NoText /\ Extract(text[c]).ok

\* C5: emit never raises to its caller, whether it fails to build the
\* update, the store refuses the write or the write goes through; and the
\* record analyze returns is decided by the remote outcome alone, so a
\* refused write never replaces the parsed dict by the default record.
C5_ProgressFailureSwallowed ==
    /\ ~lastEmit.raised
    /\ \A c \in Callers :
          ret[c].done =>
              /\ ~ret[c].raised
              /\ ret[c].rec =
                    IF Extracted(c) THEN Extract(text[c]).data ELSE DefaultRecord

\* Both writes of a call were refused and the call returned the parsed dict.
C5_Witness ==
    \E c \in Callers :
        /\ ret[c].done
        /\ Extracted(c)
        /\ ret[c].rec # DefaultRecord
        /\ Cardinality(Indices(c, "emit")) = 2
        /\ \A i \in Indices(c, "emit") : ~trace[c][i].ok

\* C6: the returned record has an error field exactly when the extraction
\* failed; a failed extraction has confidence 0 and a non-empty error, and
\* a response that parsed as a JSON object and was extracted returns no
\* error field, whatever members it has.
C6_ErrorIffFailed ==
    \A c \in Callers :
        ret[c].done =>
            /\ "error" \in DOMAIN ret[c].rec <=> ~Extracted(c)
            /\ ~Extracted(c) =>
                  /\ ret[c].rec.confidence = PyInt(0)
                  /\ ret[c].rec.error.t = "str"
                  /\ ret[c].rec.error.s # <<>>

\* C7: total_amount of the returned record is a number and is not negative;
\* it is 0.0 when the response had no total_amount.
C7_AmountNonNegative ==
    \A c \in Callers :
        ret[c].done =>
            /\ "total_amount" \in DOMAIN ret[c].rec
            /\ ret[c].rec.total_amount.t \in {"int", "float"}
            /\ ret[c].rec.total_amount.n >= 0
            /\ (ParsedAsObject(c)
                /\ "total_amount" \notin DOMAIN JsonLoads(Strip(CleanResponse(text[c]))).v.f)
                  => ret[c].rec.total_amount = PyFloat(0)

\* C8: in the update emit has written, progress_timestamp and last_updated
\* are the same timestamp.
C8_TimestampsIdentical ==
    "progress_timestamp" \in DOMAIN doc =>
        doc["progress_timestamp"] = doc["last_updated"]

\* C9: while another analyze call is in flight on the same VisionAgent, a
\* call's first request goes to the primary model, as it does when the call
\* runs alone: the other call's fallback does not change it.
C9_NoInterference ==
    \A c \in Callers, other \in Callers :
        (c # other /\ pc[c] = "call1" /\ pc[other] \in {"call1", "call2"}) =>
            \A i \in Indices(c, "call") : trace[c][i].name = PrimaryModel

BaseFields ==
    {"progress_agent", "progress_stage", "progress_message",
     "progress_percentage", "progress_timestamp", "last_updated"}

\* The details of an emit that are neither None nor an empty mapping or
\* sequence, by the field each is stored in.
GivenDetails(args) ==
    CASE args.details.kind = "none" -> {}
      [] args.details.kind = "dict" ->
            {DetailField(k) : k \in {x \in DOMAIN args.details.d :
                /\ args.details.d[x].t # "none"
                /\ ~(args.details.d[x].t \in {"list", "dict"}
                     /\ args.details.d[x].s = <<>>)}}
      [] OTHER -> IF args.details.v.s = <<>> THEN {} ELSE {"progress_detail_info"}

\* One step of the document: only an emit whose write went through changes
\* it; that emit sets the six base fields to its own values, sets the detail
\* fields it gives (a primitive as it is, anything else as a string), and
\* leaves every other field as it was, none removed.
C10_Step ==
    IF lastEmit'.flip = lastEmit.flip \/ ~lastEmit'.wrote
    THEN doc' = doc
    ELSE LET args == lastEmit'.args
         IN  /\ DOMAIN doc' = DOMAIN doc \cup BaseFields \cup GivenDetails(args)
             /\ doc'["progress_agent"] = args.agent
             /\ doc'["progress_stage"] = args.stage
             /\ doc'["progress_message"] = args.message
             /\ doc'["progress_percentage"].t = "int"
             /\ doc'["progress_percentage"].n =
                   IF args.progress.t = "int" THEN args.progress.n
                   ELSE DecimalValue(args.progress.s)
             /\ doc'["progress_timestamp"] = IsoFormat(now)
             /\ doc'["last_updated"] = IsoFormat(now')
             /\ \A f \in GivenDetails(args) :
                   IF args.details.kind = "dict"
                   THEN \E k \in DOMAIN args.details.d :
                           /\ DetailField(k) = f
                           /\ IF args.details.d[k].t \in {"str", "int", "float", "bool"}
                              THEN doc'[f] = args.details.d[k]
                              ELSE doc'[f].t = "str"
                   ELSE doc'[f] = args.details.v
             /\ \A f \in DOMAIN doc \ (BaseFields \cup GivenDetails(args)) :
                   doc'[f] = doc[f]

\* C10: after any sequence of emits on one receipt, each field of the
\* document holds what the most recent emit that wrote it gave it: the six
\* base fields come from one emit, and a detail field keeps its value when
\* a later emit omits its key or skips it as None or empty; no field is ever
\* removed.
C10_LastWriteWins == [][C10_Step]_vars

\* A detail written by an earlier emit is still there after an emit that
\* gave an empty list for it and wrote the rest.
C10_Witness ==
    /\ lastEmit.wrote
    /\ lastEmit.args.details.kind = "dict"
    /\ "b" \in DOMAIN lastEmit.args.details.d
    /\ lastEmit.args.details.d["b"] = PyList(<<>>)
    /\ "progress_detail_b" \in DOMAIN doc
    /\ doc["progress_detail_d"] = PyInt(5)

====
